---- MODULE Spec2Model ----
(***************************************************************************)
(* State-machine model of src/App.js: the BLE scanner screen.  The state   *)
(* is the component's three useState cells, the event subscription made by *)
(* the mount effect, the asynchronous calls the component has in flight    *)
(* (permission gateway, adapter checkState, adapter scan), the stop timers *)
(* scheduled by startScan, and the alerts shown.                           *)
(*                                                                         *)
(* React semantics kept by the model: a state setter queues an update that *)
(* the next render applies; a handler created by a render reads the state  *)
(* constants of that render (startScan reads isScanning of its render); a  *)
(* functional updater (setDevices(prev => ...)) is applied to the latest   *)
(* queued value, so devices is kept as that latest value.                  *)
(***************************************************************************)
EXTENDS Integers, Sequences, FiniteSets, Bags, TLC

\* ------------------------------------------------------------------ bounds
\* Adapter scan calls made in one behaviour.
MaxScanCalls == 3
\* Discovery events delivered between two clears of the device list.
MaxEvents == 3
\* Milliseconds by which one step of the clock advances wall-clock time.
TickMs == 2500

\* ------------------------------------------------------- program constants
\* setTimeout(..., 5000): delay of the stop timer.
StopDelayMs == 5000

\* ------------------------------------------------------------- value sets
Platforms == {"android", "ios"}
\* react-native-permissions RESULTS
GRANTED == "granted"
RESULTS == {"granted", "denied", "blocked", "unavailable", "limited"}
\* The three capabilities, in the order requestPermissions probes them.
CapabilitiesConnectFirst == <<"bluetoothConnect", "bluetoothScan", "location">>

Capabilities == <<"bluetoothScan", "bluetoothConnect", "location">>
CapabilitySet == {Capabilities[i] : i \in 1..3}
\* What the OS holds for a capability: already granted (check says granted),
\* granted when asked (request says granted), or never granted.
Dispositions == {"preGranted", "grantOnRequest", "refused"}
\* Peripheral descriptors carried by discovery events.
PeripheralIds == {"A", "B"}
Rssis == {-40, -70}
Peripherals == [id : PeripheralIds, rssi : Rssis]

VARIABLES
    platform,           \* Platform.OS
    gateway,            \* the OS's disposition for each capability
    lifecycle,          \* "init" (before the mount effect), "mounted", "unmounted"
    listeners,          \* handlers subscribed to BleManagerDiscoverPeripheral
    permissionsStatus,  \* useState cell, line 17
    devices,            \* useState cell, line 22
    isScanning,         \* useState cell, line 23: the constant of the current render
    pendingScanning,    \* update queued by setIsScanning, not yet rendered (<<>> or <<v>>)
    scans,              \* adapter scan calls whose stop timer has not fired yet
    scanCalls,          \* number of BleManager.scan calls made
    alerts,             \* number of alerts shown, by title
    permPc,             \* requestPermissions: "idle", "check", "request", "done"
    permIdx,            \* requestPermissions: capability being probed (1..3)
    status,             \* requestPermissions: its local status object
    bleStart,           \* BleManager.start promise: "idle", "pending", "done"
    checkStatePc,       \* checkBluetoothAndLocationServices: "idle", "pending", "done"
    \* history variables (not program state)
    eventLog,           \* ids of the discovery events handled since the last clear
    scanRejections,     \* number of scan promises that rejected
    startScanResult,    \* what the latest startScan invocation did: "none", "accepted", "ignored"
    gotGranted,         \* capability -> the gateway has returned 'granted' for it
    threwAt,            \* 0, or the index of the capability whose gateway call threw
    gatewayLog,         \* the gateway calls issued, in order, each with its result
    statusCommits,      \* number of setPermissionsStatus calls made
    checkStateResult    \* "none", "enabled", "disabled", "threw"

vars == <<platform, gateway, lifecycle, listeners, permissionsStatus, devices,
          isScanning, pendingScanning, scans, scanCalls, alerts, permPc, permIdx,
          status, bleStart, checkStatePc, eventLog, startScanResult, gotGranted,
          threwAt, gatewayLog, statusCommits, checkStateResult, scanRejections>>

scanVars == <<devices, isScanning, pendingScanning, scans, scanCalls, alerts,
              eventLog, startScanResult, scanRejections>>
permVars == <<permissionsStatus, permPc, permIdx, status, gotGranted, threwAt,
              gatewayLog, statusCommits>>
envVars == <<platform, gateway>>
mountVars == <<lifecycle, listeners, bleStart>>
checkVars == <<checkStatePc, checkStateResult>>

\* ---------------------------------------------------------------- helpers
Min(a, b) == IF a < b THEN a ELSE b
Max(a, b) == IF a > b THEN a ELSE b

AllFalse == [c \in CapabilitySet |-> FALSE]
NoAlerts == [bluetooth |-> 0, location |-> 0, scanError |-> 0]

\* The ids of a device list, in list order.
DeviceIds(ds) == [i \in 1..Len(ds) |-> ds[i].id]

\* The value isScanning has once every queued update is rendered.
LatestScanning == IF pendingScanning = <<>> THEN isScanning ELSE pendingScanning[1]

\* ------------------------------------------------------------ initial state
\* The component after its useState initialisers (lines 17-23), before the
\* mount effect has run, on platform p with gateway dispositions g.
InitState(p, g) ==
    /\ platform = p
    /\ gateway = g
    /\ lifecycle = "init"
    /\ listeners = 0
    /\ permissionsStatus = AllFalse
    /\ devices = <<>>
    /\ isScanning = FALSE
    /\ pendingScanning = <<>>
    /\ scans = EmptyBag
    /\ scanCalls = 0
    /\ alerts = NoAlerts
    /\ permPc = "idle"
    /\ permIdx = 1
    /\ status = AllFalse
    /\ bleStart = "idle"
    /\ checkStatePc = "idle"
    /\ eventLog = <<>>
    /\ startScanResult = "none"
    /\ scanRejections = 0
    /\ gotGranted = AllFalse
    /\ threwAt = 0
    /\ gatewayLog = <<>>
    /\ statusCommits = 0
    /\ checkStateResult = "none"

\* Scan lifecycle: Android, a gateway that grants each capability on request.
Init == InitState("android", [c \in CapabilitySet |-> "grantOnRequest"])

\* Mount sequence: either platform, every gateway disposition.
PermInit ==
    \E p \in Platforms : \E g \in [CapabilitySet -> Dispositions] : InitState(p, g)

\* ------------------------------------------------------ gateway call log
\* A gateway call just issued (its result is awaited), and the log once the
\* awaited call has returned result or thrown.
Issue(log, call, c) == Append(log, [call |-> call, cap |-> c, result |-> "pending"])
Returned(log, result) == [log EXCEPT ![Len(log)].result = result]

\* if (Platform.OS === "android")
OnAndroidAlways == TRUE

OnAndroid == platform = "android"

\* ------------------------------------------------------------ mount effect
\* useEffect(..., []) body: BleManager.start (not awaited), requestPermissions()
\* up to its first await, checkBluetoothAndLocationServices() up to its await,
\* and addListener.  Off Android requestPermissions has no await: it runs
\* through finally and commits the all-false status at once.
Mount ==
    /\ lifecycle = "init"
    /\ lifecycle' = "mounted"
    /\ bleStart' = "pending"
    /\ status' = AllFalse
    /\ IF OnAndroid
         THEN /\ permPc' = "check"
              /\ permIdx' = 1
              /\ gatewayLog' = Issue(gatewayLog, "check", Capabilities[1])
              /\ UNCHANGED <<permissionsStatus, statusCommits>>
         ELSE /\ permPc' = "done"
              /\ permIdx' = permIdx
              /\ permissionsStatus' = AllFalse
              /\ statusCommits' = statusCommits + 1
              /\ gatewayLog' = gatewayLog
    /\ checkStatePc' = "pending"
    /\ listeners' = listeners + 1
    /\ UNCHANGED <<envVars, scanVars, gotGranted, threwAt, checkStateResult>>

\* The cleanup returned by the effect: removeAllListeners.  The component's
\* state is no longer rendered (a queued update stays unapplied) and later
\* setters do nothing.
Unmount ==
    /\ lifecycle = "mounted"
    /\ lifecycle' = "unmounted"
    /\ listeners' = 0
    /\ UNCHANGED <<envVars, permVars, checkVars, bleStart, scanVars>>

\* A render applies the queued setIsScanning update; from then on the Button
\* and the startScan handler see the new value.  The effect has an empty
\* dependency list, so a re-render does not run it again.
RenderResubscribes ==
    /\ lifecycle = "mounted"
    /\ pendingScanning # <<>>
    /\ isScanning' = pendingScanning[1]
    /\ pendingScanning' = <<>>
    /\ listeners' = listeners + 1
    /\ UNCHANGED <<envVars, lifecycle, bleStart, permVars, checkVars, devices, scans,
                   scanCalls, alerts, eventLog, startScanResult,
                   scanRejections>>

Render ==
    /\ lifecycle = "mounted"
    /\ pendingScanning # <<>>
    /\ isScanning' = pendingScanning[1]
    /\ pendingScanning' = <<>>
    /\ UNCHANGED <<envVars, mountVars, permVars, checkVars, devices, scans,
                   scanCalls, alerts, eventLog, startScanResult,
                   scanRejections>>

\* ------------------------------------------------------- discovery events
\* The updater passed to setDevices: keep the list when an entry has the
\* peripheral's id, else append the peripheral.
handleDiscoverPeripheralPrepend(prevDevices, peripheral) ==
    IF \E i \in 1..Len(prevDevices) : prevDevices[i].id = peripheral.id
      THEN prevDevices
      ELSE <<peripheral>> \o prevDevices

handleDiscoverPeripheralUpdates(prevDevices, peripheral) ==
    IF \E i \in 1..Len(prevDevices) : prevDevices[i].id = peripheral.id
      THEN [i \in 1..Len(prevDevices) |->
               IF prevDevices[i].id = peripheral.id THEN peripheral ELSE prevDevices[i]]
      ELSE Append(prevDevices, peripheral)

handleDiscoverPeripheralNoCheck(prevDevices, peripheral) ==
    Append(prevDevices, peripheral)

handleDiscoverPeripheral(prevDevices, peripheral) ==
    LET deviceExists == \E i \in 1..Len(prevDevices) : prevDevices[i].id = peripheral.id
    IN  IF deviceExists THEN prevDevices ELSE Append(prevDevices, peripheral)

\* The adapter emits BleManagerDiscoverPeripheral; every subscribed handler runs.
DiscoverPeripheral(peripheral) ==
    /\ listeners > 0
    /\ Len(eventLog) < MaxEvents
    /\ devices' = handleDiscoverPeripheral(devices, peripheral)
    /\ eventLog' = Append(eventLog, peripheral.id)
    /\ UNCHANGED <<envVars, mountVars, permVars, checkVars, isScanning,
                   pendingScanning, scans, scanCalls, alerts, startScanResult,
                   scanRejections>>

Discover == \E peripheral \in Peripherals : DiscoverPeripheral(peripheral)

\* ------------------------------------------------------------------ startScan
\* scans is a bag of scan records: calls in the same condition are not told apart.
OneScan(scan) == SetToBag({scan})
Outstanding == BagToSet(scans)

\* The guard of startScan, on the isScanning its render captured: if (!isScanning).
StartScanGuardAlways(scanning) == TRUE

StartScanGuardPermitted(scanning) ==
    /\ ~scanning
    /\ permissionsStatus.bluetoothScan
    /\ checkStateResult = "enabled"

StartScanGuard(scanning) == ~scanning

\* A BleManager.scan([], 5, true) call just made: its promise is pending and
\* no stop timer exists for it yet.  elapsed is the time since the call,
\* counted up to StopDelayMs.
NewScan == [phase |-> "pending", remaining |-> 0, elapsed |-> 0]

\* .finally(() => setTimeout(..., 5000)): the stop timer of a settled scan.
ScheduleStopTimerFromCall(scan) ==
    [scan EXCEPT !.phase = "timer", !.remaining = StopDelayMs - scan.elapsed]

ScheduleStopTimer(scan) == [scan EXCEPT !.phase = "timer", !.remaining = StopDelayMs]

\* The timer callback: setIsScanning(false), as the update it queues.
StopTimerCallbackKeeps(queued) == queued

StopTimerCallback(queued) == <<FALSE>>

\* What the settlement handlers queue for isScanning: .then logs, .catch
\* logs and alerts, .finally only schedules the timer; none calls a setter.
SettleScanning(queued) == queued

\* onPress={startScan}
StartScanKeepsDevices ==
    /\ lifecycle = "mounted"
    /\ IF StartScanGuard(isScanning)
         THEN /\ scanCalls < MaxScanCalls
              /\ pendingScanning' = <<TRUE>>
              /\ devices' = devices
              /\ eventLog' = <<>>
              /\ scans' = scans (+) OneScan(NewScan)
              /\ scanCalls' = scanCalls + 1
              /\ startScanResult' = "accepted"
         ELSE /\ startScanResult' = "ignored"
              /\ UNCHANGED <<pendingScanning, devices, eventLog, scans, scanCalls>>
    /\ UNCHANGED <<envVars, mountVars, permVars, checkVars, isScanning, alerts,
                   scanRejections>>

StartScan ==
    /\ lifecycle = "mounted"
    /\ IF StartScanGuard(isScanning)
         THEN /\ scanCalls < MaxScanCalls
              /\ pendingScanning' = <<TRUE>>
              /\ devices' = <<>>
              /\ eventLog' = <<>>
              /\ scans' = scans (+) OneScan(NewScan)
              /\ scanCalls' = scanCalls + 1
              /\ startScanResult' = "accepted"
         ELSE /\ startScanResult' = "ignored"
              /\ UNCHANGED <<pendingScanning, devices, eventLog, scans, scanCalls>>
    /\ UNCHANGED <<envVars, mountVars, permVars, checkVars, isScanning, alerts,
                   scanRejections>>

\* The promise of scan call s resolves: .then logs, .finally schedules the timer.
ScanResolves(s) ==
    /\ s.phase = "pending"
    /\ scans' = (scans (-) OneScan(s)) (+) OneScan(ScheduleStopTimer(s))
    /\ pendingScanning' = SettleScanning(pendingScanning)
    /\ UNCHANGED <<envVars, mountVars, permVars, checkVars, devices, isScanning,
                   scanCalls, alerts, eventLog, startScanResult,
                   scanRejections>>

\* The promise of scan call s rejects: .catch logs and shows the "Scan Error"
\* alert, .finally schedules the timer.
ScanRejects(s) ==
    /\ s.phase = "pending"
    /\ alerts' = [alerts EXCEPT !.scanError = @ + 1]
    /\ scanRejections' = scanRejections + 1
    /\ scans' = (scans (-) OneScan(s)) (+) OneScan(ScheduleStopTimer(s))
    /\ pendingScanning' = SettleScanning(pendingScanning)
    /\ UNCHANGED <<envVars, mountVars, permVars, checkVars, devices, isScanning,
                   scanCalls, eventLog, startScanResult>>

\* The stop timer of scan call s fires: setIsScanning(false).  After teardown
\* the setter does nothing.
TimerFires(s) ==
    /\ s.phase = "timer"
    /\ s.remaining = 0
    /\ scans' = scans (-) OneScan(s)
    /\ pendingScanning' = IF lifecycle = "mounted"
                            THEN StopTimerCallback(pendingScanning)
                            ELSE pendingScanning
    /\ UNCHANGED <<envVars, mountVars, permVars, checkVars, devices, isScanning,
                   scanCalls, alerts, eventLog, startScanResult,
                   scanRejections>>

\* Wall-clock time advances by TickMs: every running timer comes that much
\* closer to firing (a timer may fire late, never early).  A queued update is
\* rendered within the same turn of the event loop, so no time passes while
\* one is waiting.
Advance(scan) ==
    [scan EXCEPT !.remaining = Max(@ - TickMs, 0),
                 !.elapsed = Min(@ + TickMs, StopDelayMs)]

Tick ==
    /\ scans # EmptyBag
    /\ pendingScanning = <<>> \/ lifecycle # "mounted"
    /\ scans' = BagOfAll(Advance, scans)
    /\ UNCHANGED <<envVars, mountVars, permVars, checkVars, devices, isScanning,
                   pendingScanning, scanCalls, alerts, eventLog, startScanResult,
                   scanRejections>>

ScanResolve == \E s \in Outstanding : ScanResolves(s)
ScanReject == \E s \in Outstanding : ScanRejects(s)
TimerFire == \E s \in Outstanding : TimerFires(s)

\* --------------------------------------------------- requestPermissions
\* The capability requestPermissions is probing.
Capability == Capabilities[permIdx]

\* What check(c) and request(c) can return for the OS's disposition.
CheckResults(c) ==
    IF gateway[c] = "preGranted" THEN {GRANTED} ELSE RESULTS \ {GRANTED}
RequestResults(c) ==
    IF gateway[c] = "refused" THEN RESULTS \ {GRANTED} ELSE {GRANTED}
\* Whether an undisturbed probe of c (check, then request if needed) ends granted.
WouldGrant(c) == gateway[c] # "refused"

\* x === RESULTS.GRANTED
IsGrantedUnlessDenied(result) == result # "denied"

IsGranted(result) == result = GRANTED

\* finally { setPermissionsStatus(status) }: the cell's value after the commit.
CommitStatus(st) == IF lifecycle = "mounted" THEN st ELSE permissionsStatus

\* After capability permIdx is recorded in st: the next capability's check is
\* issued, or after the third the try block ends and finally commits st.
NextCapabilityCommitsEach(st) ==
    /\ status' = st
    /\ permissionsStatus' = CommitStatus(st)
    /\ statusCommits' = statusCommits + 1
    /\ IF permIdx < Len(Capabilities)
         THEN /\ permIdx' = permIdx + 1
              /\ permPc' = "check"
         ELSE /\ permIdx' = permIdx
              /\ permPc' = "done"

NextCapability(st) ==
    /\ status' = st
    /\ IF permIdx < Len(Capabilities)
         THEN /\ permIdx' = permIdx + 1
              /\ permPc' = "check"
              /\ UNCHANGED <<permissionsStatus, statusCommits>>
         ELSE /\ permIdx' = permIdx
              /\ permPc' = "done"
              /\ permissionsStatus' = CommitStatus(st)
              /\ statusCommits' = statusCommits + 1

\* The log after the awaited call of capability permIdx has returned and the
\* capability is recorded: the next capability's check is issued, if any.
AfterCapability(log) ==
    IF permIdx < Len(Capabilities)
      THEN Issue(log, "check", Capabilities[permIdx + 1])
      ELSE log

\* await check(...) returns result: granted sets the field, anything else
\* issues the request.
CheckReturns(result) ==
    /\ permPc = "check"
    /\ result \in CheckResults(Capability)
    /\ gotGranted' = [gotGranted EXCEPT ![Capability] = @ \/ (result = GRANTED)]
    /\ IF IsGranted(result)
         THEN /\ NextCapability([status EXCEPT ![Capability] = TRUE])
              /\ gatewayLog' = AfterCapability(Returned(gatewayLog, result))
         ELSE /\ permPc' = "request"
              /\ gatewayLog' = Issue(Returned(gatewayLog, result), "request", Capability)
              /\ UNCHANGED <<permIdx, status, permissionsStatus, statusCommits>>
    /\ UNCHANGED <<envVars, mountVars, checkVars, scanVars, threwAt>>

\* await request(...) returns result: the field is whether it is granted.
RequestReturns(result) ==
    /\ permPc = "request"
    /\ result \in RequestResults(Capability)
    /\ gotGranted' = [gotGranted EXCEPT ![Capability] = @ \/ (result = GRANTED)]
    /\ NextCapability([status EXCEPT ![Capability] = IsGranted(result)])
    /\ gatewayLog' = AfterCapability(Returned(gatewayLog, result))
    /\ UNCHANGED <<envVars, mountVars, checkVars, scanVars, threwAt>>

\* The awaited gateway call throws: catch logs, finally commits status as it is.
GatewayThrows ==
    /\ threwAt' = permIdx
    /\ permPc' = "done"
    /\ permissionsStatus' = CommitStatus(status)
    /\ statusCommits' = statusCommits + 1
    /\ gatewayLog' = Returned(gatewayLog, "threw")
    /\ UNCHANGED <<envVars, mountVars, checkVars, scanVars, permIdx, status, gotGranted>>

CheckThrows == permPc = "check" /\ GatewayThrows
RequestThrows == permPc = "request" /\ GatewayThrows

CheckReturn == \E result \in RESULTS : CheckReturns(result)
RequestReturn == \E result \in RESULTS : RequestReturns(result)

\* -------------------------------------- checkBluetoothAndLocationServices
\* const isLocationEnabled = true
IsLocationEnabled == TRUE

\* if (!isBluetoothEnabled) Alert.alert("Bluetooth Disabled", ...)
BluetoothAlertShownAlways(isBluetoothEnabled) == TRUE

BluetoothAlertShown(isBluetoothEnabled) == ~isBluetoothEnabled

\* await BleManager.checkState() returns.
CheckStateReturns(isBluetoothEnabled) ==
    /\ checkStatePc = "pending"
    /\ checkStatePc' = "done"
    /\ checkStateResult' = IF isBluetoothEnabled THEN "enabled" ELSE "disabled"
    /\ alerts' = [alerts EXCEPT
                    !.bluetooth = IF BluetoothAlertShown(isBluetoothEnabled) THEN @ + 1 ELSE @,
                    !.location = IF ~IsLocationEnabled THEN @ + 1 ELSE @]
    /\ UNCHANGED <<envVars, mountVars, permVars, devices, isScanning, pendingScanning,
                   scans, scanCalls, eventLog, startScanResult,
                   scanRejections>>

\* await BleManager.checkState() throws: catch logs.
CheckStateThrows ==
    /\ checkStatePc = "pending"
    /\ checkStatePc' = "done"
    /\ checkStateResult' = "threw"
    /\ UNCHANGED <<envVars, mountVars, permVars, scanVars>>

CheckStateReturn == \E isBluetoothEnabled \in BOOLEAN : CheckStateReturns(isBluetoothEnabled)

\* The promise of BleManager.start settles; nothing waits for it.
BleStartSettles ==
    /\ bleStart = "pending"
    /\ bleStart' = "done"
    /\ UNCHANGED <<envVars, lifecycle, listeners, permVars, checkVars, scanVars>>

\* --------------------------------------------------------- specifications
\* The actions touch disjoint parts of the state (the scan lifecycle, the
\* permission pass, the service check), so each part is checked under the
\* specification that runs it.

\* The scan lifecycle: discovery events, startScan, settlements, timers.
Next ==
    \/ Mount
    \/ Unmount
    \/ Render
    \/ Discover
    \/ StartScan
    \/ ScanResolve
    \/ ScanReject
    \/ TimerFire
    \/ Tick

Spec == Init /\ [][Next]_vars

\* The scan lifecycle of a component that stays mounted, with the scheduling
\* the event loop gives: a due timer fires, a queued update is rendered, time
\* passes.  Discovery events are left out: they touch devices and eventLog
\* only, and no action of the scan lifecycle reads either.
LiveNext ==
    \/ Mount
    \/ Render
    \/ StartScan
    \/ ScanResolve
    \/ ScanReject
    \/ TimerFire
    \/ Tick

FairSpec ==
    /\ Init
    /\ [][LiveNext]_vars
    /\ WF_vars(TimerFire)
    /\ WF_vars(Render)
    /\ WF_vars(Tick)

\* The mount sequence: the permission pass and the calls made beside it.
PermNext ==
    \/ Mount
    \/ CheckReturn
    \/ CheckThrows
    \/ RequestReturn
    \/ RequestThrows
    \/ CheckStateReturn
    \/ CheckStateThrows
    \/ BleStartSettles

PermSpec == PermInit /\ [][PermNext]_vars

\* The mount sequence on one gateway, beside discovery events and scan starts.
ServiceNext ==
    \/ Mount
    \/ CheckReturn
    \/ CheckThrows
    \/ RequestReturn
    \/ RequestThrows
    \/ CheckStateReturn
    \/ CheckStateThrows
    \/ Discover
    \/ StartScan
    \/ Render

ServiceSpec == Init /\ [][ServiceNext]_vars

\* ------------------------------------------------------------------ claims

\* C1: in every reachable state, whatever the interleaving of discovery
\* events, startScan invocations, settlements and timer firings, no two
\* entries of devices have the same id.
C1_NoDuplicateIds ==
    \A i, j \in 1..Len(devices) : i # j => devices[i].id # devices[j].id

\* A repeated id has been delivered, in a second scan, and the list holds
\* every id once.
C1_Witness ==
    /\ scanCalls >= 2
    /\ Len(devices) = Cardinality(PeripheralIds)
    /\ Len(eventLog) > Len(devices)

\* The position of the first event with id x in log.
FirstIndex(log, x) ==
    CHOOSE i \in 1..Len(log) : log[i] = x /\ \A j \in 1..(i - 1) : log[j] # x

\* C2: devices lists exactly the ids delivered since the last clear, each
\* once, in the order of their first occurrence.
C2_FirstSeenOrder ==
    LET ids == DeviceIds(devices)
    IN  /\ {ids[k] : k \in 1..Len(ids)} = {eventLog[i] : i \in 1..Len(eventLog)}
        /\ \A k, l \in 1..Len(ids) :
              k < l => FirstIndex(eventLog, ids[k]) < FirstIndex(eventLog, ids[l])

\* The scenario of the specification: events A, B, A leave [A, B].
C2_Witness ==
    /\ eventLog = <<"A", "B", "A">>
    /\ DeviceIds(devices) = <<"A", "B">>

\* C3: while the isScanning that startScan reads is true, no step (so no
\* startScan invocation) calls the adapter's scan, removes an entry of
\* devices, adds an outstanding scan or timer, or queues isScanning = true;
\* and isScanning leaves true only by rendering the stop timer's update.
C3_StartScanIgnoredWhileScanning ==
    [][isScanning =>
          /\ scanCalls' = scanCalls
          /\ Len(devices') >= Len(devices)
          /\ SubSeq(devices', 1, Len(devices)) = devices
          /\ BagCardinality(scans') <= BagCardinality(scans)
          /\ pendingScanning' \in {pendingScanning, <<>>, <<FALSE>>}
          /\ (~isScanning' => pendingScanning = <<FALSE>>)]_vars

\* startScan was invoked while isScanning was true, with entries listed.
C3_Witness ==
    /\ startScanResult = "ignored"
    /\ isScanning
    /\ devices # <<>>

\* C4: at most one adapter scan call is outstanding (its stop timer not yet
\* fired), so at most one stop timer is pending.
C4_AtMostOneScanOutstanding == BagCardinality(scans) <= 1

\* C5: an accepted startScan makes isScanning true at once; isScanning goes
\* back to false only when a stop timer fires; and when it does, 5000 ms have
\* passed since every accepted startScan whose window it ends.
C5_ScanningHeldForStopDelay ==
    [][/\ scanCalls' > scanCalls => LatestScanning'
       /\ (LatestScanning /\ ~LatestScanning') =>
             /\ \E s \in Outstanding : TimerFires(s)
             /\ \A s \in Outstanding : s.elapsed >= StopDelayMs]_vars

\* C6: whenever isScanning is true and the promise of an accepted scan has
\* settled (resolved or rejected), isScanning is eventually false again, so
\* the guard of startScan passes again.
C6_ScanLeadsToIdle ==
    (isScanning /\ \E s \in Outstanding : s.phase = "timer") ~> ~isScanning

\* A scan was rejected, every timer has fired, and the component is idle
\* after a second scan was accepted.
C6_Witness ==
    /\ alerts.scanError > 0
    /\ scanCalls >= 2
    /\ scans = EmptyBag
    /\ ~isScanning
    /\ pendingScanning = <<>>

\* C7: every field of permissionsStatus is false before the mount effect,
\* and is true only if the gateway returned 'granted' for that capability.
C7_TrueOnlyIfGranted ==
    /\ lifecycle = "init" => permissionsStatus = AllFalse
    /\ \A c \in CapabilitySet : permissionsStatus[c] => gotGranted[c]

\* A pass without exception committed one field true and another false.
C7_Witness ==
    /\ permPc = "done"
    /\ threwAt = 0
    /\ \E c, d \in CapabilitySet : permissionsStatus[c] /\ ~permissionsStatus[d]

\* C8: after a pass in which a gateway call threw, the capability of that
\* call is committed false and each other capability is committed as the
\* gateway would grant it.
C8_ThrowLeavesOthersUnaffected ==
    (permPc = "done" /\ threwAt # 0) =>
        /\ ~permissionsStatus[Capabilities[threwAt]]
        /\ \A i \in 1..Len(Capabilities) :
              i # threwAt =>
                 permissionsStatus[Capabilities[i]] = WouldGrant(Capabilities[i])

\* C9: the "Bluetooth Disabled" alert has been shown once if checkState
\* reported disabled and not at all otherwise, the location alert is never
\* shown, and the step that ends the check changes none of
\* permissionsStatus, devices, isScanning.
C9_ServiceCheckAlerts ==
    /\ [](/\ alerts.bluetooth = IF checkStateResult = "disabled" THEN 1 ELSE 0
          /\ alerts.location = 0)
    /\ [][checkStateResult' # checkStateResult =>
             UNCHANGED <<permissionsStatus, devices, isScanning>>]_vars

\* checkState reported disabled during a scan with entries listed and a
\* permission granted.
C9_Witness ==
    /\ checkStateResult = "disabled"
    /\ alerts.bluetooth = 1
    /\ isScanning
    /\ devices # <<>>
    /\ \E c \in CapabilitySet : permissionsStatus[c]

\* C10: a discovery event handled while isScanning is false, with no update
\* waiting and no scan outstanding, leaves devices unchanged.
C10_DevicesFrozenOutsideScan ==
    [][(/\ ~isScanning
        /\ pendingScanning = <<>>
        /\ scans = EmptyBag
        /\ Len(eventLog') > Len(eventLog)) => devices' = devices]_vars

\* The number of outstanding scan calls in the given phase.
InPhase(bag, phase) ==
    BagCardinality([s \in {t \in BagToSet(bag) : t.phase = phase} |-> bag[s]])

\* C11 as stated: the stop timer of a scan call runs from the call itself, so
\* every outstanding call has a timer with 5000 ms less the time since the call.
C11_TimerRunsFromInvocation ==
    \A s \in Outstanding :
        s.phase = "timer" /\ s.remaining = StopDelayMs - s.elapsed

\* C11 as amended: a stop timer appears only in the step that settles a scan
\* promise, with its full 5000 ms still to run; and while every outstanding
\* call is still pending isScanning does not return to false.
C11_TimerRunsFromSettlement ==
    [][/\ InPhase(scans', "timer") > InPhase(scans, "timer") =>
             /\ InPhase(scans', "pending") < InPhase(scans, "pending")
             /\ \E t \in BagToSet(scans') :
                   /\ t.phase = "timer"
                   /\ t.remaining = StopDelayMs
                   /\ CopiesIn(t, scans') > CopiesIn(t, scans)
       /\ (LatestScanning /\ \A s \in Outstanding : s.phase = "pending") =>
             LatestScanning']_vars

\* 5000 ms after the call its promise is still pending, no timer exists and
\* isScanning is still true.
C11_Witness ==
    /\ isScanning
    /\ pendingScanning = <<>>
    /\ scans = OneScan([phase |-> "pending", remaining |-> 0, elapsed |-> StopDelayMs])

\* The number of asynchronous calls in flight: BleManager.start, a gateway
\* check or request, BleManager.checkState, and the pending scan promises.
InFlightCalls ==
    (IF bleStart = "pending" THEN 1 ELSE 0)
    + (IF permPc \in {"check", "request"} THEN 1 ELSE 0)
    + (IF checkStatePc = "pending" THEN 1 ELSE 0)
    + InPhase(scans, "pending")

\* C12: at most one asynchronous call is in flight at any time; checkState is
\* not in flight while BleManager.start or a gateway call is.
C12_OneCallInFlight ==
    /\ InFlightCalls <= 1
    /\ checkStatePc = "pending" =>
          bleStart # "pending" /\ permPc \notin {"check", "request"}

\* The capability the pass turns to after the given one.
FollowingCapability(c) ==
    IF c = "bluetoothScan" THEN "bluetoothConnect"
    ELSE IF c = "bluetoothConnect" THEN "location"
    ELSE "none"

\* C13: on Android the gateway is called for scan, connect, location in that
\* order; each capability is checked first and requested exactly when its
\* check returned something other than "granted"; a capability's check is
\* issued only once the previous capability's last call has returned, so only
\* the most recent gateway call can still be in flight.
C13_GatewayCallsSequential ==
    \A i \in 1..Len(gatewayLog) :
        LET e == gatewayLog[i] IN
        /\ e.result = "pending" => i = Len(gatewayLog) /\ permPc = e.call
        /\ i = 1 => e.call = "check" /\ e.cap = "bluetoothScan"
        /\ (i > 1 /\ e.call = "check") =>
              /\ gatewayLog[i - 1].result \in RESULTS
              /\ gatewayLog[i - 1].call = "check" => gatewayLog[i - 1].result = GRANTED
              /\ e.cap = FollowingCapability(gatewayLog[i - 1].cap)
        /\ e.call = "request" =>
              /\ i > 1
              /\ gatewayLog[i - 1].call = "check"
              /\ gatewayLog[i - 1].cap = e.cap
              /\ gatewayLog[i - 1].result \in RESULTS \ {GRANTED}
        /\ (e.call = "check" /\ e.result \in RESULTS \ {GRANTED}) =>
              /\ i < Len(gatewayLog)
              /\ gatewayLog[i + 1].call = "request"
        /\ (e.result \in RESULTS /\ e.cap # "location"
              /\ (e.call = "request" \/ e.result = GRANTED)) =>
              /\ i < Len(gatewayLog)
              /\ gatewayLog[i + 1].call = "check"

\* A completed Android pass that found the first capability granted at its
\* check and had to request the other two.
C13_Witness ==
    /\ platform = "android"
    /\ permPc = "done"
    /\ threwAt = 0
    /\ Len(gatewayLog) = 5
    /\ gatewayLog[1].result = GRANTED
    /\ gatewayLog[3].call = "request"
    /\ gatewayLog[5].call = "request"

\* The capabilities whose check the pass has issued so far.
Reached == {gatewayLog[i].cap : i \in 1..Len(gatewayLog)}

\* C14: a pass calls setPermissionsStatus exactly once, at its end, with the
\* whole status object, whether it completed or a gateway call threw (fields
\* of capabilities never reached are false); until then permissionsStatus is
\* all-false, in particular while any check or request is pending.
C14_StatusCommittedOnceAtEnd ==
    /\ statusCommits = (IF permPc = "done" THEN 1 ELSE 0)
    /\ permPc # "done" => permissionsStatus = AllFalse
    /\ permPc = "done" =>
          /\ permissionsStatus = status
          /\ \A c \in CapabilitySet \ Reached : ~permissionsStatus[c]

\* A pass cut short by a throw at the second capability, after the first was
\* granted: the commit carries the first field and leaves the others false.
C14_Witness ==
    /\ permPc = "done"
    /\ threwAt = 2
    /\ statusCommits = 1
    /\ permissionsStatus =
          [bluetoothScan |-> TRUE, bluetoothConnect |-> FALSE, location |-> FALSE]

\* C15: off Android the pass calls the gateway not at all and permissionsStatus
\* is all-false in every reachable state, whatever the gateway would answer.
C15_NoGatewayOffAndroid ==
    platform # "android" =>
        /\ gatewayLog = <<>>
        /\ permPc \notin {"check", "request"}
        /\ \A c \in CapabilitySet : ~gotGranted[c]
        /\ permissionsStatus = AllFalse

\* A finished pass on iOS over a gateway that would grant everything at check.
C15_Witness ==
    /\ platform = "ios"
    /\ \A c \in CapabilitySet : gateway[c] = "preGranted"
    /\ permPc = "done"
    /\ statusCommits = 1

\* C16: a startScan that passes its guard empties devices; every entry listed
\* afterwards has the id of a discovery event delivered since that startScan,
\* so an earlier entry is back only if its peripheral was discovered again;
\* the settlement of a scan promise leaves devices as it is, a rejection shows
\* exactly one "Scan Error" alert and a resolution shows none.
C16_ClearedAtStartScan ==
    /\ [](/\ \A i \in 1..Len(devices) :
                \E j \in 1..Len(eventLog) : eventLog[j] = devices[i].id
          /\ alerts.scanError = scanRejections)
    /\ [][/\ scanCalls' > scanCalls => devices' = <<>>
          /\ InPhase(scans', "pending") < InPhase(scans, "pending") =>
                /\ devices' = devices
                /\ alerts'.scanError = alerts.scanError
                      + (scanRejections' - scanRejections)]_vars

\* The first scan was rejected with its alert; the second startScan cleared
\* the list, and peripheral A is listed again from a discovery delivered since.
C16_Witness ==
    /\ scanCalls = 2
    /\ scanRejections = 1
    /\ alerts.scanError = 1
    /\ eventLog = <<"A">>
    /\ Len(devices) = 1
    /\ devices[1].id = "A"

\* C17: a listed entry never changes: a discovery event whose id is already
\* listed leaves devices exactly as it is, whatever its other fields; in any
\* step other than a startScan that passes its guard every entry keeps its
\* position and its fields and the list does not get shorter.
C17_EntriesImmutable ==
    [][/\ scanCalls' = scanCalls =>
             /\ Len(devices') >= Len(devices)
             /\ \A i \in 1..Len(devices) : devices'[i] = devices[i]
       /\ (/\ Len(eventLog') = Len(eventLog) + 1
           /\ \E i \in 1..Len(devices) : devices[i].id = eventLog'[Len(eventLog')]) =>
             devices' = devices]_vars

\* Peripheral A was discovered, then B, then A again: A keeps the first place
\* and the fields of its first discovery.
C17_Witness ==
    /\ eventLog = <<"A", "B", "A">>
    /\ Len(devices) = 2
    /\ devices[1] = [id |-> "A", rssi |-> -40]
    /\ devices[2].id = "B"

\* C18: the discovery handler is subscribed once by the mount effect and
\* released by its cleanup: exactly one handler is subscribed while the
\* component is mounted, re-renders included, none before mount or after
\* teardown, and after teardown devices never changes.
C18_OneListenerWhileMounted ==
    /\ [](listeners = (IF lifecycle = "mounted" THEN 1 ELSE 0))
    /\ [][lifecycle = "unmounted" =>
             devices' = devices /\ eventLog' = eventLog]_vars

\* The component re-rendered with a scan under way, listed a peripheral and
\* was then torn down.
C18_Witness ==
    /\ lifecycle = "unmounted"
    /\ listeners = 0
    /\ isScanning
    /\ devices # <<>>

\* C19: startScan goes through to the adapter exactly when the rendered
\* isScanning is false: in every state of a mounted component, whatever
\* permissionsStatus holds, wherever the permission pass stands and whatever
\* checkState reported, a startScan that calls BleManager.scan can be taken
\* if and only if isScanning is false.
C19_ScanNeedsOnlyIdle ==
    (lifecycle = "mounted" /\ scanCalls < MaxScanCalls) =>
        ((ENABLED (StartScan /\ scanCalls' = scanCalls + 1 /\ devices' = <<>>))
            <=> ~isScanning)

\* A scan call was made and the list cleared with permissionsStatus all-false,
\* a permission request still awaited and the adapter reported as not on.
C19_Witness ==
    /\ startScanResult = "accepted"
    /\ scans = OneScan(NewScan)
    /\ devices = <<>>
    /\ permPc = "request"
    /\ permissionsStatus = AllFalse
    /\ checkStateResult = "disabled"
    /\ alerts.bluetooth = 1

====
